---- MODULE Spec2Model ----
(***************************************************************************)
(* slack-job-monitor: ProcessMonitor.run_jobs / main (__main__.py) and     *)
(* RateLimiter (slack_wrapper.py) as a state machine.                      *)
(*                                                                         *)
(* The supervisor is one thread of control; pc names the source line it is *)
(* about to execute.  The environment acts through ChildExit (a launched   *)
(* child terminates with some exit code), Tick (the wall clock read by     *)
(* time.time() advances) and Interrupt (a KeyboardInterrupt is raised in   *)
(* the supervisor before the statement at pc executes).                    *)
(***************************************************************************)
EXTENDS Integers, Sequences, FiniteSets, TLC

\* ---- bounds of the model ------------------------------------------------
MaxJobs == 2          \* longest job list explored (len(self.args) in 0..MaxJobs)
MaxExitCode == 2      \* children exit with a code in 0..MaxExitCode
MaxCpu == 1           \* a process uses at most this much CPU time
MaxElapsed == 6       \* the clock advances at most this far past self.start
MaxInterrupts == 1    \* KeyboardInterrupts delivered in one run

\* ---- program constants --------------------------------------------------
period_sec == 4       \* RateLimiter(4)

STARTED == "STARTED"
RUNNING == "RUNNING"
COMPLETED == "COMPLETED"
COMPLETED_WITH_ERRORS == "COMPLETED_WITH_ERRORS"
INTERRUPTED == "INTERRUPTED"
CRASHED == "CRASHED"

MonitorStatus ==
  {STARTED, RUNNING, COMPLETED, COMPLETED_WITH_ERRORS, INTERRUPTED, CRASHED}

Terminal == {COMPLETED, COMPLETED_WITH_ERRORS, INTERRUPTED, CRASHED}

ExitCodes == 0..MaxExitCode

\* outcome of SlackClientWrapper.update_post / ping_user: the request went
\* through (or the wrapper had no channel and returned), the client raised
\* SlackApiError (logged and swallowed), or it raised anything else (raised
\* to the caller: only SlackApiError is caught).
DeliveryOutcomes == {"sent", "SlackApiError", "OtherError"}

VARIABLES
  pc,          \* source line of __main__.py the supervisor executes next
  nargs,       \* len(self.args)
  idx,         \* 1-based position of `arg` in self.args (0 before the loop)
  status,      \* self.status
  completed,   \* self.completed
  failed,      \* self.failed
  start,       \* self.start
  real_time,   \* self.real_time
  user_time,   \* self.user_time
  system_time, \* self.system_time
  proc_stats,  \* local proc_stats: the entry of each process identity.
               \* Only the sums of lines 109-110 read the table, so an
               \* identity without an entry is one with the entry NoSample
  job_start,   \* local job_start
  proc,        \* local proc: job whose child the handle names, 0 = unbound
  returncode,  \* proc.returncode: -1 stands for None
  last_ok,     \* self.rate_limiter.last_ok
  now,         \* value time.time() returns
  child,       \* child[j]: the OS process launched for job j
  tree,        \* the descendants a job's child has while it runs
  load,        \* the largest CPU time (user plus system) psutil reports
               \* for a process
  terminated,  \* jobs on whose handle terminate() has been invoked
  interrupts,  \* history: KeyboardInterrupts delivered so far
  handled,     \* history: job during which the loop's except clause ran, 0 = never
  intrPoll,    \* history: job whose poll loop an interrupt arrived in, 0 = none
  nonzero,     \* history: jobs whose child exited with a non-zero code
  raised,      \* history: the exception other than KeyboardInterrupt that
               \* was raised inside run_jobs, "none" if there was none
  lastReport,  \* history: call site and status of the last update_message
  pinged,      \* history: ping_user has been called
  gateRet,     \* history: the last two answers of the RateLimiter and
               \* the clock readings they were computed from
  observed,    \* history: for each process identity, the last CPU times
               \* psutil returned for it during the current job
  lastTick,    \* history: what the sample tick just taken did with each
               \* process identity; cleared when the tick is over (line
               \* 103 has slept, or an interrupt has ended the loop)
  slept,       \* history: <<d>> when the poll loop of the current job last
               \* slept for d tenths (rounded down), <<>> outside the loop
  progress     \* history: for each in-progress report pushed at line 114,
               \* the clock reading at which the RateLimiter allowed it

ctl == <<pc, idx, proc, returncode, job_start>>
stats == <<completed, failed, user_time, system_time, real_time>>
table == <<proc_stats, observed, lastTick>>
workload == <<tree, load>>
env == <<now, child>>
hist == <<interrupts, handled, intrPoll, nonzero, raised, lastReport, pinged>>

vars == <<pc, nargs, idx, status, completed, failed, start, real_time,
          job_start, proc, returncode, last_ok, now, child, terminated,
          interrupts, handled, intrPoll, nonzero, raised, lastReport, pinged,
          gateRet, progress, user_time, system_time, proc_stats, observed,
          lastTick, tree, load, slept>>

Jobs == 1..MaxJobs

NoChild == [st |-> "none", code |-> 0]

\* a child whose exit status has been collected by poll()
Reaped == [st |-> "reaped", code |-> 0]

\* statements inside the try block of the for loop (lines 85-114)
TryBody == {"L85", "L91", "L93", "L94", "L95", "L103", "L105", "L106", "L107",
            "L109", "L110", "L111", "L113", "L114"}

\* the statements that call time.time(): lines 85, 103, 111 and 120, and
\* RateLimiter.__call__ (line 113, and "gate" when it is driven on its own)
ClockRead == {"L85", "L103", "L111", "L113", "L120", "gate"}

\* the poll loop of one job (lines 94-103)
PollLoop == {"L94", "L95", "L103"}

\* statements of run_jobs outside the try block, and the call in main
OutsideTry == {"L156", "L81", "L83", "L116", "L117", "L118", "L120", "L121",
               "L126"}

\* main's except clause and the completion ping
MainTail == {"L158", "L159", "L161"}

\* the supervisor process is gone: main returned, or an exception left main
Exited == {"exit_ok", "exit_traceback"}

\* no RateLimiter call yet.  called/at/prev/ret: the last call, the clock
\* it read, last_ok before it, its answer; pcalled/pat/pret: the call before
\* it; allowedAt: clock of the latest call, before the last, answered True
NoGate == [called |-> FALSE, at |-> 0, prev |-> 0, ret |-> FALSE,
           pcalled |-> FALSE, pat |-> 0, pret |-> FALSE, allowedAt |-> 0]

\* failures of the collaborators (process launch, psutil, Slack transport),
\* as opposed to failures of the supervisor's own computations
ExternalFailure == {"OSError", "psutil.Error", "OtherError"}

\* ---- pure helpers -------------------------------------------------------

\* mutant of RateLimiterAllows: the comparison made non-strict
RateLimiterAllowsGeq(t, last) == (t - last) >= period_sec

\* RateLimiter.__call__: the test of line 18
RateLimiterAllows(t, last) == (t - last) > period_sec

\* mutant of RateLimiterLastOk: an allowed call does not record its time
RateLimiterLastOkStale(t, last) == last

\* RateLimiter.__call__: the value of last_ok after the call
RateLimiterLastOk(t, last) == IF RateLimiterAllows(t, last) THEN t ELSE last

\* the process identities of one job: psutil.Process(proc.pid) and one of
\* its descendants
Ids == {"p", "kid"}

\* what an identity without an entry adds to the sums of lines 109-110
NoSample == [user |-> 0, system |-> 0]
NoStats == [i \in Ids |-> NoSample]
NoTick == [i \in Ids |-> "absent"]

\* what one tick does with a process: the process is not enumerated
\* ("absent"), its cpu_times() raises psutil.Error ("miss"), or returns
Reads ==
  {[st |-> x, user |-> 0, system |-> 0] : x \in {"absent", "miss"}}
    \cup {r \in {[st |-> "ok", user |-> u, system |-> y] :
                      u \in 0..load, y \in 0..load} :
            r.user + r.system <= load}

\* line 95: p itself is always enumerated, a descendant only if it is alive
TickReads ==
  {r \in [Ids -> Reads] :
     /\ r["p"].st # "absent"
     /\ \A i \in Ids \ {"p"} : r[i].st # "absent" => i \in tree}

\* mutant of TableAfter: a miss removes the entry
TableAfterMissDrops(t, r) ==
  [i \in Ids |->
     IF r[i].st = "ok"
       THEN [user |-> r[i].user, system |-> r[i].system]
       ELSE IF r[i].st = "miss" THEN NoSample ELSE t[i]]

\* lines 96-101: proc_stats after one tick with outcome r
TableAfter(t, r) ==
  [i \in Ids |->
     IF r[i].st = "ok"
       THEN [user |-> r[i].user, system |-> r[i].system]
       ELSE t[i]]

RECURSIVE SumOver(_, _)
SumOver(S, f) ==
  IF S = {} THEN 0
  ELSE LET i == CHOOSE x \in S : TRUE IN f[i] + SumOver(S \ {i}, f)

\* line 109: sum(s.user for s in proc_stats.values())
SumUser(t) == SumOver(Ids, [i \in Ids |-> t[i].user])

\* line 110: sum(s.system for s in proc_stats.values())
SumSystem(t) == SumOver(Ids, [i \in Ids |-> t[i].system])

\* mutant of SleepArg: the + 1 is left out
SleepArgNoPlusOne(t, js) == t - js

\* line 103: the argument of math.log10
SleepArg(t, js) == t - js + 1

\* math.log10(x) in tenths, rounded down, for the integers x <= 8 (the width
\* of TLC's integers); -1 stands for the x below 1, where math.log10 is
\* negative or raises ValueError
Log10Deci(x) ==
  IF x < 1 THEN -1
  ELSE CHOOSE d \in 0..9 : 10^d <= x^10 /\ (d < 9 => x^10 < 10^(d + 1))

\* get_stats_str: the two divisions (lines 70-71) raise ZeroDivisionError
\* when the job list is empty or when real_time is 0
GetStatsRaises(n, rt) == n = 0 \/ rt = 0

\* mutant of FailedAfter: the exit code added instead of the comparison
FailedAfterSum(f, rc) == f + rc

\* line 107: self.failed += proc.returncode != 0
FailedAfter(f, rc) == f + (IF rc # 0 THEN 1 ELSE 0)

\* mutant of FinalStatus: the test of self.failed left out
FinalStatusIgnoresFailed(st, c, n, f) == IF c = n THEN COMPLETED ELSE st

\* lines 121-125: the status run_jobs leaves after the loop
FinalStatus(st, c, n, f) ==
  IF c = n THEN (IF f = 0 THEN COMPLETED ELSE COMPLETED_WITH_ERRORS) ELSE st

\* update_message: the status line of the pushed text
Report(site) == [site |-> site, status |-> status]

\* ---- initial state: after ProcessMonitor.__init__ (lines 30-46) ---------
Init ==
  /\ pc = "L156"
  /\ nargs \in 0..MaxJobs
  /\ idx = 0
  /\ status = STARTED
  /\ completed = 0
  /\ failed = 0
  \* time.time() counts seconds since 1970: it reads far more than
  \* period_sec, which is all the first RateLimiter call depends on
  /\ now = period_sec + 1
  /\ start = now
  /\ real_time = 0
  /\ user_time = 0
  /\ system_time = 0
  /\ proc_stats = NoStats
  /\ observed = NoStats
  /\ lastTick = NoTick
  /\ slept = <<>>
  \* the children of this specification have no descendants and use no
  \* measurable CPU time; SpecSample explores those that do
  /\ tree = {}
  /\ load = 0
  /\ job_start = 0
  /\ proc = 0
  /\ returncode = -1
  /\ last_ok = 0
  /\ child = [j \in Jobs |-> NoChild]
  /\ terminated = {}
  /\ interrupts = 0
  /\ handled = 0
  /\ intrPoll = 0
  /\ nonzero = {}
  /\ raised = "none"
  /\ lastReport = [site |-> "init", status |-> STARTED]
  /\ pinged = FALSE
  /\ gateRet = NoGate
  /\ progress = <<>>

\* ---- exceptions ---------------------------------------------------------

\* an exception other than KeyboardInterrupt leaves run_jobs: the except
\* clause of line 115 does not match it and main's bare except (line 157)
\* catches it
Raise(kind) ==
  /\ pc' = "L158"
  /\ raised' = kind

\* ---- main and run_jobs, one action per statement ------------------------

\* line 156: monitor.run_jobs()
L156 ==
  /\ pc = "L156"
  /\ pc' = "L81"
  /\ UNCHANGED <<nargs, workload, slept, table, idx, status, stats, start,
                 job_start, proc, returncode, last_ok, env, terminated, hist,
                 gateRet, progress>>

\* line 81: self.status = MonitorStatus.RUNNING
L81 ==
  /\ pc = "L81"
  /\ status' = RUNNING
  /\ pc' = "L83"
  /\ UNCHANGED <<nargs, workload, slept, table, idx, stats, start, job_start,
                 proc, returncode, last_ok, env, terminated, hist, gateRet,
                 progress>>

\* line 83: for arg in self.args
L83 ==
  /\ pc = "L83"
  /\ IF idx < nargs
       THEN idx' = idx + 1 /\ pc' = "L85"
       ELSE idx' = idx /\ pc' = "L120"
  /\ UNCHANGED <<nargs, workload, slept, table, status, stats, start,
                 job_start, proc, returncode, last_ok, env, terminated, hist,
                 gateRet, progress>>

\* mutant of L85: the table of the previous job is kept
L85KeepTable ==
  /\ pc = "L85"
  /\ job_start' = now
  /\ observed' = NoStats
  /\ pc' = "L91"
  /\ UNCHANGED <<nargs, workload, slept, proc_stats, lastTick, idx, status,
                 stats, start, proc, returncode, last_ok, env, terminated,
                 hist, gateRet, progress>>

\* lines 85-89: job_start = time.time(); proc_stats = {}
L85 ==
  /\ pc = "L85"
  /\ job_start' = now
  /\ proc_stats' = NoStats
  /\ observed' = NoStats
  /\ pc' = "L91"
  /\ UNCHANGED <<nargs, workload, slept, lastTick, idx, status, stats, start,
                 proc, returncode, last_ok, env, terminated, hist, gateRet,
                 progress>>

\* line 91: proc = subprocess.Popen(self.command + [arg]); Popen raises
\* OSError when the command cannot be executed
L91 ==
  /\ pc = "L91"
  /\ \E ok \in BOOLEAN :
       IF ok
         THEN /\ child' = [child EXCEPT ![idx] = [st |-> "running", code |-> 0]]
              /\ proc' = idx
              /\ returncode' = -1
              /\ pc' = "L93"
              /\ UNCHANGED raised
         ELSE /\ Raise("OSError")
              /\ UNCHANGED <<child, proc, returncode>>
  /\ UNCHANGED <<nargs, workload, slept, table, idx, status, stats, start,
                 job_start, last_ok, now, terminated, interrupts, handled,
                 intrPoll, nonzero, lastReport, pinged, gateRet, progress>>

\* line 93: p = psutil.Process(proc.pid); the child has not been reaped, so
\* its pid exists
L93 ==
  /\ pc = "L93"
  /\ pc' = "L94"
  /\ UNCHANGED <<nargs, workload, slept, table, idx, status, stats, start,
                 job_start, proc, returncode, last_ok, env, terminated, hist,
                 gateRet, progress>>

\* mutant of L94: the job is counted without waiting for its child to exit
L94NoWait ==
  /\ pc = "L94"
  /\ pc' = "L105"
  /\ UNCHANGED <<nargs, workload, slept, table, idx, status, stats, start,
                 job_start, proc, returncode, last_ok, env, terminated, hist,
                 gateRet, progress>>

\* line 94: while proc.poll() is None; poll() reaps a child that has exited
\* and sets proc.returncode
L94 ==
  /\ pc = "L94"
  /\ IF child[proc].st = "running"
       THEN /\ pc' = "L95"
            /\ UNCHANGED <<child, returncode, slept>>
       ELSE /\ child' = [child EXCEPT ![proc] = Reaped]
            /\ returncode' = child[proc].code
            /\ slept' = <<>>
            /\ pc' = "L105"
  /\ UNCHANGED <<nargs, workload, table, idx, status, stats, start, job_start,
                 proc, last_ok, now, terminated, hist, gateRet, progress>>

\* lines 95-101, one tick with outcome r: every process whose cpu_times()
\* returned gets its entry overwritten; psutil.Error is caught and passed
L95Tick(r) ==
  /\ proc_stats' = TableAfter(proc_stats, r)
  /\ observed' = [i \in Ids |->
                    IF r[i].st = "ok"
                      THEN [user |-> r[i].user, system |-> r[i].system]
                      ELSE observed[i]]
  /\ lastTick' = [i \in Ids |-> r[i].st]
  /\ pc' = "L103"
  /\ UNCHANGED raised

\* mutant of L95: every sample is added to the totals when it is taken
L95FoldOnSample ==
  /\ pc = "L95"
  /\ \/ Raise("psutil.Error") /\ UNCHANGED <<table, user_time, system_time>>
     \/ \E r \in TickReads :
          /\ L95Tick(r)
          /\ user_time' = user_time + SumUser(TableAfter(proc_stats, r))
          /\ system_time' = system_time + SumSystem(TableAfter(proc_stats, r))
  /\ UNCHANGED <<nargs, workload, slept, idx, status, completed, failed,
                 real_time, start, job_start, proc, returncode, last_ok, env,
                 terminated, interrupts, handled, intrPoll, nonzero,
                 lastReport, pinged, gateRet, progress>>

\* lines 95-101: one sample of the process tree.  p.children() is outside
\* the inner try: a psutil.Error it raises leaves run_jobs
L95 ==
  /\ pc = "L95"
  /\ \/ Raise("psutil.Error") /\ UNCHANGED table
     \/ \E r \in TickReads : L95Tick(r)
  /\ UNCHANGED <<nargs, workload, slept, idx, status, stats, start, job_start,
                 proc, returncode, last_ok, env, terminated, interrupts,
                 handled, intrPoll, nonzero, lastReport, pinged, gateRet,
                 progress>>

\* line 103: time.sleep(math.log10(time.time() - job_start + 1))
L103 ==
  /\ pc = "L103"
  /\ slept' = <<Log10Deci(SleepArg(now, job_start))>>
  /\ pc' = "L94"
  /\ lastTick' = NoTick
  /\ UNCHANGED <<nargs, workload, proc_stats, observed, idx, status, stats,
                 start, job_start, proc, returncode, last_ok, env, terminated,
                 hist, gateRet, progress>>

\* line 105: proc.wait(); poll() has reaped the child, wait() returns at once
L105 ==
  /\ pc = "L105"
  /\ pc' = "L106"
  /\ UNCHANGED <<nargs, workload, slept, table, idx, status, stats, start,
                 job_start, proc, returncode, last_ok, env, terminated, hist,
                 gateRet, progress>>

\* line 106: self.completed += 1
L106 ==
  /\ pc = "L106"
  /\ completed' = completed + 1
  /\ pc' = "L107"
  /\ UNCHANGED <<nargs, workload, slept, table, idx, status, failed,
                 user_time, system_time, real_time, start, job_start, proc,
                 returncode, last_ok, env, terminated, hist, gateRet,
                 progress>>

\* line 107: self.failed += proc.returncode != 0
L107 ==
  /\ pc = "L107"
  /\ failed' = FailedAfter(failed, returncode)
  /\ pc' = "L109"
  /\ UNCHANGED <<nargs, workload, slept, table, idx, status, completed,
                 user_time, system_time, real_time, start, job_start, proc,
                 returncode, last_ok, env, terminated, hist, gateRet,
                 progress>>

\* line 109: self.user_time += sum(s.user for s in proc_stats.values())
L109 ==
  /\ pc = "L109"
  /\ user_time' = user_time + SumUser(proc_stats)
  /\ pc' = "L110"
  /\ UNCHANGED <<nargs, workload, slept, table, idx, status, completed,
                 failed, system_time, real_time, start, job_start, proc,
                 returncode, last_ok, env, terminated, hist, gateRet,
                 progress>>

\* line 110: self.system_time += sum(s.system for s in proc_stats.values())
L110 ==
  /\ pc = "L110"
  /\ system_time' = system_time + SumSystem(proc_stats)
  /\ pc' = "L111"
  /\ UNCHANGED <<nargs, workload, slept, table, idx, status, completed,
                 failed, user_time, real_time, start, job_start, proc,
                 returncode, last_ok, env, terminated, hist, gateRet,
                 progress>>

\* line 111: self.real_time = time.time() - self.start
L111 ==
  /\ pc = "L111"
  /\ real_time' = now - start
  /\ pc' = "L113"
  /\ UNCHANGED <<nargs, workload, slept, table, idx, status, completed,
                 failed, user_time, system_time, start, job_start, proc,
                 returncode, last_ok, env, terminated, hist, gateRet,
                 progress>>

\* history of a RateLimiter call made in the current state
GateRecord ==
  [called |-> TRUE, at |-> now, prev |-> last_ok,
   ret |-> RateLimiterAllows(now, last_ok),
   pcalled |-> gateRet.called, pat |-> gateRet.at, pret |-> gateRet.ret,
   allowedAt |-> IF gateRet.called /\ gateRet.ret THEN gateRet.at
                                                  ELSE gateRet.allowedAt]

\* line 113: if self.rate_limiter()
L113 ==
  /\ pc = "L113"
  /\ last_ok' = RateLimiterLastOk(now, last_ok)
  /\ gateRet' = GateRecord
  /\ pc' = IF RateLimiterAllows(now, last_ok) THEN "L114" ELSE "L83"
  /\ UNCHANGED <<nargs, workload, slept, table, idx, status, stats, start,
                 job_start, proc, returncode, env, terminated, hist,
                 progress>>

\* self.update_message(self.get_stats_str()) at `site`: get_stats_str may
\* raise; otherwise update_post is called, and raises what it does not catch
PushReport(site, next, onRaise) ==
  IF GetStatsRaises(nargs, real_time)
    THEN /\ pc' = onRaise
         /\ raised' = IF site = "crash" THEN raised ELSE "ZeroDivisionError"
         /\ UNCHANGED lastReport
    ELSE /\ lastReport' = Report(site)
         /\ \E o \in DeliveryOutcomes :
              IF o = "OtherError"
                THEN /\ pc' = onRaise
                     /\ raised' = IF site = "crash" THEN raised ELSE "OtherError"
                ELSE /\ pc' = next
                     /\ UNCHANGED raised

\* line 114: the in-progress report
L114 ==
  /\ pc = "L114"
  /\ PushReport("progress", "L83", "L158")
  /\ progress' = IF GetStatsRaises(nargs, real_time)
                   THEN progress
                   ELSE Append(progress, gateRet.at)
  /\ UNCHANGED <<nargs, workload, slept, table, idx, status, stats, start,
                 job_start, proc, returncode, last_ok, env, terminated,
                 interrupts, handled, intrPoll, nonzero, pinged, gateRet>>

\* line 116: proc.terminate().  An unbound proc raises UnboundLocalError;
\* terminate() polls first and signals only a child that has not exited
L116 ==
  /\ pc = "L116"
  /\ IF proc = 0
       THEN /\ Raise("UnboundLocalError")
            /\ UNCHANGED <<child, returncode, terminated>>
       ELSE /\ terminated' = terminated \cup {proc}
            /\ IF child[proc].st = "zombie"
                 THEN /\ child' = [child EXCEPT ![proc] = Reaped]
                      /\ returncode' = child[proc].code
                 ELSE UNCHANGED <<child, returncode>>
            /\ pc' = "L117"
            /\ UNCHANGED raised
  /\ UNCHANGED <<nargs, workload, slept, table, idx, status, stats, start,
                 job_start, proc, last_ok, now, interrupts, handled, intrPoll,
                 nonzero, lastReport, pinged, gateRet, progress>>

\* line 117: self.status = MonitorStatus.INTERRUPTED
L117 ==
  /\ pc = "L117"
  /\ status' = INTERRUPTED
  /\ pc' = "L118"
  /\ UNCHANGED <<nargs, workload, slept, table, idx, stats, start, job_start,
                 proc, returncode, last_ok, env, terminated, hist, gateRet,
                 progress>>

\* mutant of L118: the except clause falls through to the next iteration
L118Continue ==
  /\ pc = "L118"
  /\ pc' = "L83"
  /\ UNCHANGED <<nargs, workload, slept, table, idx, status, stats, start,
                 job_start, proc, returncode, last_ok, env, terminated, hist,
                 gateRet, progress>>

\* line 118: break
L118 ==
  /\ pc = "L118"
  /\ pc' = "L120"
  /\ UNCHANGED <<nargs, workload, slept, table, idx, status, stats, start,
                 job_start, proc, returncode, last_ok, env, terminated, hist,
                 gateRet, progress>>

\* line 120: self.real_time = time.time() - self.start
L120 ==
  /\ pc = "L120"
  /\ real_time' = now - start
  /\ pc' = "L121"
  /\ UNCHANGED <<nargs, workload, slept, table, idx, status, completed,
                 failed, user_time, system_time, start, job_start, proc,
                 returncode, last_ok, env, terminated, hist, gateRet,
                 progress>>

\* lines 121-125: the final status
L121 ==
  /\ pc = "L121"
  /\ status' = FinalStatus(status, completed, nargs, failed)
  /\ pc' = "L126"
  /\ UNCHANGED <<nargs, workload, slept, table, idx, stats, start, job_start,
                 proc, returncode, last_ok, env, terminated, hist, gateRet,
                 progress>>

\* line 126: the final report, not gated
L126 ==
  /\ pc = "L126"
  /\ PushReport("final", "L161", "L158")
  /\ UNCHANGED <<nargs, workload, slept, table, idx, status, stats, start,
                 job_start, proc, returncode, last_ok, env, terminated,
                 interrupts, handled, intrPoll, nonzero, pinged, gateRet,
                 progress>>

\* lines 157-158: except: monitor.status = MonitorStatus.CRASHED
L158 ==
  /\ pc = "L158"
  /\ status' = CRASHED
  /\ pc' = "L159"
  /\ UNCHANGED <<nargs, workload, slept, table, idx, stats, start, job_start,
                 proc, returncode, last_ok, env, terminated, hist, gateRet,
                 progress>>

\* line 159: the crash report; what it raises leaves main
L159 ==
  /\ pc = "L159"
  /\ PushReport("crash", "L161", "exit_traceback")
  /\ UNCHANGED <<nargs, workload, slept, table, idx, status, stats, start,
                 job_start, proc, returncode, last_ok, env, terminated,
                 interrupts, handled, intrPoll, nonzero, pinged, gateRet,
                 progress>>

\* line 161: monitor.slack.ping_user(), then main returns
L161 ==
  /\ pc = "L161"
  /\ pinged' = TRUE
  /\ \E o \in DeliveryOutcomes :
       pc' = IF o = "OtherError" THEN "exit_traceback" ELSE "exit_ok"
  /\ UNCHANGED <<nargs, workload, slept, table, idx, status, stats, start,
                 job_start, proc, returncode, last_ok, env, terminated,
                 interrupts, handled, intrPoll, nonzero, raised, lastReport,
                 gateRet, progress>>

\* ---- environment --------------------------------------------------------

\* a running child exits with code c; it stays a zombie until polled
ChildExit(j, c) ==
  /\ pc \notin Exited
  /\ child[j].st = "running"
  /\ child' = [child EXCEPT ![j] = [st |-> "zombie", code |-> c]]
  /\ nonzero' = IF c # 0 THEN nonzero \cup {j} ELSE nonzero
  /\ UNCHANGED <<nargs, workload, slept, table, status, ctl, stats, start,
                 last_ok, now, terminated, interrupts, handled, intrPoll,
                 raised, lastReport, pinged, gateRet, progress>>

\* the wall clock advances by one unit.  The program sees the clock only
\* where it calls time.time(): time that passes elsewhere is time that has
\* passed when the next of these statements runs
Tick ==
  /\ pc \in ClockRead
  /\ now < start + MaxElapsed
  /\ now' = now + 1
  /\ UNCHANGED <<nargs, workload, slept, table, status, ctl, stats, start,
                 last_ok, child, terminated, hist, gateRet, progress>>

\* a KeyboardInterrupt is raised before the statement at pc: inside the try
\* block the clause of line 115 catches it, elsewhere in run_jobs main's
\* bare except does, and in main's own tail nothing does
Interrupt ==
  /\ interrupts < MaxInterrupts
  /\ pc \in TryBody \cup OutsideTry \cup MainTail
  /\ interrupts' = interrupts + 1
  /\ pc' = IF pc \in TryBody THEN "L116"
           ELSE IF pc \in OutsideTry THEN "L158"
           ELSE "exit_traceback"
  /\ handled' = IF pc \in TryBody THEN idx ELSE handled
  /\ intrPoll' = IF pc \in PollLoop /\ child[idx].st = "running"
                   THEN idx ELSE intrPoll
  /\ lastTick' = NoTick
  /\ slept' = <<>>
  /\ UNCHANGED <<nargs, workload, proc_stats, observed, idx, status, stats,
                 start, job_start, proc, returncode, last_ok, env, terminated,
                 nonzero, raised, lastReport, pinged, gateRet, progress>>

Next ==
  \/ L156 \/ L81 \/ L83 \/ L85 \/ L91 \/ L93 \/ L94 \/ L95 \/ L103 \/ L105
  \/ L106 \/ L107 \/ L109 \/ L110 \/ L111 \/ L113 \/ L114 \/ L116 \/ L117
  \/ L118 \/ L120
  \/ L121 \/ L126 \/ L158 \/ L159 \/ L161
  \/ \E j \in Jobs, c \in ExitCodes : ChildExit(j, c)
  \/ Tick
  \/ Interrupt

Spec == Init /\ [][Next]_vars

\* ---- the job loop on its own: run_jobs from line 83 on, one second after
\* construction, with children that have a descendant and use CPU time; the
\* clock stands still, and a child exits with 0 or with MaxExitCode

SampleInit ==
  /\ pc = "L83"
  /\ nargs \in 1..MaxJobs
  /\ idx = 0
  /\ status = RUNNING
  /\ completed = 0
  /\ failed = 0
  /\ start = period_sec + 1
  /\ now = start + 1
  /\ real_time = 0
  /\ user_time = 0
  /\ system_time = 0
  /\ proc_stats = NoStats
  /\ observed = NoStats
  /\ lastTick = NoTick
  /\ slept = <<>>
  /\ tree = Ids \ {"p"}
  /\ load = MaxCpu
  /\ job_start = 0
  /\ proc = 0
  /\ returncode = -1
  /\ last_ok = 0
  /\ child = [j \in Jobs |-> NoChild]
  /\ terminated = {}
  /\ interrupts = 0
  /\ handled = 0
  /\ intrPoll = 0
  /\ nonzero = {}
  /\ raised = "none"
  /\ lastReport = [site |-> "init", status |-> STARTED]
  /\ pinged = FALSE
  /\ gateRet = NoGate
  /\ progress = <<>>

SampleNext ==
  \/ L83 \/ L85 \/ L91 \/ L93 \/ L94 \/ L95 \/ L103 \/ L105 \/ L106 \/ L107
  \/ L109 \/ L110 \/ L111 \/ L113 \/ L114 \/ L116 \/ L117 \/ L118
  \/ \E j \in Jobs, c \in {0, MaxExitCode} : ChildExit(j, c)
  \/ Interrupt

SpecSample == SampleInit /\ [][SampleNext]_vars

\* ---- RateLimiter on its own: a caller invoking it at arbitrary times ----

GateInit ==
  /\ pc = "gate"
  /\ nargs = 0
  /\ idx = 0
  /\ status = STARTED
  /\ completed = 0
  /\ failed = 0
  /\ now \in (period_sec + 1)..(period_sec + 1 + MaxElapsed)
  /\ start = now
  /\ real_time = 0
  /\ user_time = 0
  /\ system_time = 0
  /\ proc_stats = NoStats
  /\ observed = NoStats
  /\ lastTick = NoTick
  /\ slept = <<>>
  /\ tree = {}
  /\ load = 0
  /\ job_start = 0
  /\ proc = 0
  /\ returncode = -1
  /\ last_ok = 0
  /\ child = [j \in Jobs |-> NoChild]
  /\ terminated = {}
  /\ interrupts = 0
  /\ handled = 0
  /\ intrPoll = 0
  /\ nonzero = {}
  /\ raised = "none"
  /\ lastReport = [site |-> "init", status |-> STARTED]
  /\ pinged = FALSE
  /\ gateRet = NoGate
  /\ progress = <<>>

\* RateLimiter.__call__ (lines 16-21)
GateCall ==
  /\ pc = "gate"
  /\ last_ok' = RateLimiterLastOk(now, last_ok)
  /\ gateRet' = GateRecord
  /\ UNCHANGED <<nargs, workload, slept, table, status, ctl, stats, start,
                 env, terminated, hist, progress>>

GateNext == GateCall \/ Tick

SpecGate == GateInit /\ [][GateNext]_vars

TypeOK ==
  /\ pc \in TryBody \cup OutsideTry \cup MainTail \cup Exited \cup {"gate"}
  /\ nargs \in 0..MaxJobs
  /\ idx \in 0..nargs
  /\ status \in MonitorStatus
  /\ completed \in 0..MaxJobs
  /\ failed \in 0..MaxJobs
  /\ proc \in 0..nargs
  /\ returncode \in {-1} \cup ExitCodes
  /\ now \in start..(start + MaxElapsed)
  /\ last_ok \in 0..now
  /\ terminated \subseteq Jobs
  /\ nonzero \subseteq Jobs
  /\ raised \in {"none", "ZeroDivisionError", "UnboundLocalError"}
                \cup ExternalFailure
  /\ Len(progress) <= MaxJobs
  /\ user_time \in 0..(2 * MaxCpu * MaxJobs)
  /\ system_time \in 0..(2 * MaxCpu * MaxJobs)
  /\ proc_stats \in [Ids -> [user : 0..MaxCpu, system : 0..MaxCpu]]
  /\ observed = proc_stats
  /\ lastTick \in [Ids -> {"absent", "miss", "ok"}]
  /\ slept \in {<<>>} \cup {<<d>> : d \in 0..9}
  /\ tree \subseteq Ids \ {"p"}
  /\ load \in 0..MaxCpu

\* ---- claims --------------------------------------------------------------

\* children launched so far
Launched == {j \in Jobs : child[j].st # "none"}

\* C1: in every reachable state completed <= len(args) and
\* failed <= completed.
C1_CountsBounded ==
  /\ completed <= nargs
  /\ failed <= completed

\* C1 witness: every job of a non-empty list has been counted, all as failed
C1_AllCountedAllFailed ==
  /\ nargs = MaxJobs
  /\ completed = nargs
  /\ failed = completed

\* C2: when the loop has ended without interrupt or crash and every job is
\* counted, run_jobs has set COMPLETED if failed = 0 and
\* COMPLETED_WITH_ERRORS otherwise, and failed is the number of jobs whose
\* child exited with a non-zero code.
C2_FinalStatusFromFailed ==
  (pc = "L126" /\ interrupts = 0 /\ completed = nargs) =>
    /\ failed = 0 => status = COMPLETED
    /\ failed # 0 => status = COMPLETED_WITH_ERRORS
    /\ failed = Cardinality(nonzero)

\* C2 witness: jobs [a, b], a exited 0 and b exited non-zero
C2_SecondJobFailed ==
  /\ pc = "L126"
  /\ interrupts = 0
  /\ nargs = 2
  /\ completed = 2
  /\ nonzero = {2}
  /\ failed = 1
  /\ status = COMPLETED_WITH_ERRORS

\* C3 (as claimed): with no interrupt and no failing collaborator, the
\* supervisor ends with completed = len(args) and status COMPLETED or
\* COMPLETED_WITH_ERRORS, for every list length including 0.
C3_RunEndsCompleted ==
  (pc \in Exited /\ interrupts = 0 /\ raised \notin ExternalFailure) =>
    /\ completed = nargs
    /\ status \in {COMPLETED, COMPLETED_WITH_ERRORS}

\* C4 (as claimed): after a single interrupt delivered in the poll loop of a
\* job whose child was running, terminate() was invoked on that child, the
\* job is not counted, and the run ends INTERRUPTED.
C4_InterruptedInPoll ==
  (pc \in Exited /\ interrupts = 1 /\ intrPoll # 0
     /\ raised \notin ExternalFailure) =>
    /\ intrPoll \in terminated
    /\ completed = intrPoll - 1
    /\ status = INTERRUPTED

\* C5: once the loop's except clause has caught an interrupt during job i,
\* no child is ever launched for a job j > i.
C5_NoLaunchAfterInterrupt ==
  handled # 0 => \A j \in Launched : j <= handled

\* C5 witness: a run interrupted during job 1 of a longer list has ended
C5_InterruptedEarly ==
  /\ handled = 1
  /\ nargs > 1
  /\ pc \in Exited

\* C6 (as claimed, for the runs in which no interrupt is delivered): when
\* the supervisor exits, no child it launched is running without
\* terminate() having been invoked on it.
C6_NoOrphan ==
  (pc \in Exited /\ interrupts = 0) =>
    \A j \in Jobs : child[j].st = "running" => j \in terminated

\* C7 (as claimed, for the runs in which no interrupt is delivered): when
\* the supervisor exits, the last report pushed is the final or crash
\* report and carries the terminal status of the run.
C7_FinalReportPushed ==
  (pc \in Exited /\ interrupts = 0) =>
    /\ status \in Terminal
    /\ lastReport.site \in {"final", "crash"}
    /\ lastReport.status = status

\* C8 (as claimed, for the runs in which no interrupt is delivered): after
\* a failure was raised inside run_jobs, the run ends with status CRASHED,
\* the crash report pushed and the completion ping sent.
C8_CrashReportedAndPinged ==
  (pc \in Exited /\ interrupts = 0 /\ raised # "none") =>
    /\ status = CRASHED
    /\ lastReport = [site |-> "crash", status |-> CRASHED]
    /\ pinged

\* C9 (as claimed, for the runs in which no interrupt is delivered): a
\* terminal status, once set, is never replaced.
C9_TerminalStatusStays ==
  [][(status \in Terminal /\ interrupts' = 0) => (status' = status)]_vars

\* C10: a call of the RateLimiter at clock t answers True exactly when
\* t - last_ok > 4, and then last_ok = t, otherwise last_ok is unchanged;
\* a call within 4 of a call answered True is answered False, and a call
\* more than 4 after the latest call answered True is answered True.
C10_GateContract ==
  gateRet.called =>
    /\ gateRet.ret <=> (gateRet.at - gateRet.prev > 4)
    /\ last_ok = (IF gateRet.ret THEN gateRet.at ELSE gateRet.prev)
    /\ (gateRet.pcalled /\ gateRet.pret /\ gateRet.at - gateRet.pat <= 4)
         => ~gateRet.ret
    /\ (gateRet.allowedAt # 0 /\ gateRet.at - gateRet.allowedAt > 4)
         => gateRet.ret

\* C10 witness: a call answered True, a call within 4 of it answered False,
\* and a later call answered True again
C10_TrueFalseTrue ==
  /\ gateRet.called /\ gateRet.ret
  /\ gateRet.pcalled /\ ~gateRet.pret
  /\ gateRet.allowedAt # 0
  /\ gateRet.pat - gateRet.allowedAt <= 4

\* exit status of the supervisor process: 0 when main returns, non-zero
\* when an exception leaves main (lines 150-165 never call sys.exit)
ExitCode == IF pc = "exit_ok" THEN 0 ELSE 1

\* C11 (as claimed, for the runs in which no interrupt is delivered): a
\* report built for a non-empty job list while real_time = 0 raises no
\* division error.
C11_ZeroElapsedNoDivisionError ==
  ~(interrupts = 0 /\ nargs > 0 /\ real_time = 0
      /\ raised = "ZeroDivisionError")

\* C12 (as claimed): a delivery failure of an in-progress report is never
\* raised to the job loop.
C12_DeliveryFailureSwallowed ==
  ~(lastReport.site = "progress" /\ raised = "OtherError")

\* C13 (as claimed, for the runs in which no interrupt is delivered): a run
\* that ends COMPLETED or COMPLETED_WITH_ERRORS exits with code 0.
C13_CompletedExitsZero ==
  (pc \in Exited /\ interrupts = 0
     /\ status \in {COMPLETED, COMPLETED_WITH_ERRORS}) => ExitCode = 0

\* children that have been launched and not yet reaped
Unreaped == {j \in Jobs : child[j].st \in {"running", "zombie"}}

\* C14: children are launched in job-list order, each job at most once, a
\* child is launched only when every earlier child has exited and been
\* reaped, and at most one child is alive and un-reaped at any time.
C14_Sequential ==
  /\ [](/\ Cardinality(Unreaped) <= 1
        /\ \A j \in Launched : \A i \in 1..(j - 1) : i \in Launched)
  /\ [][\A j \in Jobs :
          (child[j].st # "running" /\ child'[j].st = "running") =>
             /\ child[j].st = "none"
             /\ \A i \in 1..(j - 1) : child[i].st = "reaped"]_vars

\* C14 witness: the second job's child runs after the first was reaped
C14_SecondAfterFirst ==
  /\ child[1].st = "reaped"
  /\ child[2].st = "running"

\* C20 (as claimed): when the except clause of the job loop runs, proc is
\* the child launched for the job of the current iteration.
C20_HandlerTerminatesCurrent ==
  pc = "L116" => proc = idx

\* C18: any two in-progress reports were allowed at clock readings more
\* than period_sec apart, and a job whose gate call falls within period_sec
\* of the last allowed one pushes no in-progress report.
C18_ProgressReportsSpaced ==
  /\ [](\A i, j \in DOMAIN progress :
          i < j => progress[j] - progress[i] > period_sec)
  /\ [][(pc = "L113" /\ now - last_ok <= period_sec) =>
          (pc' # "L114" /\ progress' = progress)]_vars
  /\ [][(pc # "L114") => (progress' = progress)]_vars

\* C18 witness: two in-progress reports were pushed in one run
C18_TwoProgressReports == Len(progress) = 2

\* the accumulated totals of lines 106-110
Totals == <<completed, failed, user_time, system_time>>

\* C15: the totals change only in a step of lines 106-110, taken when the
\* current job's child has exited and been reaped and no interrupt has been
\* caught; no step of the poll loop and no step after an interrupt was
\* caught changes them, and a job interrupted in its poll loop is not counted.
C15_FoldOnExit ==
  /\ [][(Totals' # Totals) =>
          /\ pc \in {"L106", "L107", "L109", "L110"}
          /\ proc = idx
          /\ child[idx].st = "reaped"
          /\ handled = 0]_vars
  /\ [](intrPoll # 0 => completed = intrPoll - 1)

\* C15 witness: the first job was sampled and folded, the second was
\* interrupted in its poll loop after a sample
C15_FoldedThenInterrupted ==
  /\ completed = 1
  /\ user_time > 0
  /\ intrPoll = 2
  /\ SumUser(proc_stats) > 0
  /\ pc = "L116"

\* C16: lines 109 and 110 add the sum, over the process identities, of the
\* CPU times psutil last returned for the identity during this job, and
\* nothing for an identity it returned none for.
C16_FoldAddsLastObserved ==
  /\ [][(pc = "L109" /\ pc' = "L110") =>
          (user_time' = user_time + observed["p"].user
                          + observed["kid"].user)]_vars
  /\ [][(pc = "L110" /\ pc' = "L111") =>
          (system_time' = system_time + observed["p"].system
                            + observed["kid"].system)]_vars

\* C16 witness: the second job is folded, its descendant having been read
\* with a non-zero user time while the child itself never was
C16_SecondJobFolded ==
  /\ pc = "L110"
  /\ idx = 2
  /\ observed["kid"].user > 0
  /\ observed["p"] = NoSample
  /\ user_time > observed["kid"].user

\* C17: a tick in which some cpu_times() call raised psutil.Error goes on to
\* line 103 without raising; the entry of every process that was read is
\* the reading of this tick, every other entry is what it was.
C17_MissIsSkipped ==
  [][(pc = "L95" /\ \E i \in Ids : lastTick'[i] = "miss") =>
       /\ pc' = "L103"
       /\ raised' = raised
       /\ \A i \in Ids :
            IF lastTick'[i] = "ok"
              THEN proc_stats'[i] = observed'[i]
              ELSE proc_stats'[i] = proc_stats[i]]_vars

\* C17 witness: the descendant, recorded with a non-zero reading, was missed
\* in a tick that read the child itself
C17_KidMissedEntryKept ==
  /\ pc = "L103"
  /\ lastTick = [i \in Ids |-> IF i = "p" THEN "ok" ELSE "miss"]
  /\ proc_stats["kid"].user > 0

====
